---- MODULE Spec2Model ----
(***************************************************************************)
(* McpClient (mcpClient.ts): a JSON-RPC client that spawns a worker        *)
(* process, writes request lines to its stdin, reassembles response lines  *)
(* from its stdout and routes each response to the caller awaiting its id. *)
(*                                                                         *)
(* Text is modelled as sequences of characters.  A character is either a   *)
(* line feed, a blank, a multi-byte character, or a token standing for a   *)
(* fragment of JSON text: an id token d stands for                         *)
(*   {"jsonrpc":"2.0","id":d                                               *)
(* and a kind token for the rest of the envelope:                          *)
(*   "r"  ,"result":R}        "e"  ,"error":{"code":C,"message":M}}        *)
(*   "b"  both members        "n"  neither member: }                       *)
(* so that a line parses as a response envelope iff, blanks apart, it is   *)
(* one id token followed by one kind token.                                *)
(***************************************************************************)
EXTENDS Integers, Sequences, FiniteSets, TLC

(* ---- bounds ---- *)
MaxCalls == 3      \* requests issued over the life of the client
MaxProcs == 2      \* worker processes spawned over the life of the client
MaxBuf == 1        \* characters retained in the read buffer
MaxSplit == 1      \* ids whose response line may arrive split over two reads
MaxInput == 4      \* bytes of worker output in the framing specification
MaxOdd == 1        \* ids a worker may answer with both or neither of result/error
MaxTyped == 2      \* typed methods invoked in the typed-method specification

VARIABLES
    process,          \* this.process: 0 is null, else the index of a spawned worker
    connected,        \* this.connected
    requestId,        \* this.requestId
    pendingRequests,  \* this.pendingRequests: id -> index in calls of the waiting caller
    buffer,           \* this.buffer
    procs,            \* state of every worker spawned so far
    written,          \* per worker, the request lines written to its stdin so far
    calls,            \* every call() that registered a request, in invocation order
    connects,         \* every connect() that spawned a worker: its promise
    input,            \* framing: the bytes the worker will output
    fed,              \* framing: how many bytes of input were delivered
    decoded,          \* framing: the complete lines handleData iterated over
    typed,            \* every typed method invoked, in invocation order
    stderrLog,        \* the texts console.error printed for the workers' stderr
    envFile,          \* ~/.claude-code-pp/.env: whether it exists, and its content
    saves,            \* every _updateEnvFile that wrote the file: <<key, value>>
    globalState,      \* context.globalState: the value under ONBOARDING_COMPLETE_KEY
    currentPanel,     \* OnboardingPanel.currentPanel: 0 is undefined, else a panel
    panels,           \* state of every webview panel created so far
    activated,        \* the onboarding extension is active
    showTimer,        \* the setTimeout of activate() is armed
    environment,      \* process.env.CAIIDE_ONBOARDING as activate() read it
    configuration,    \* the showOnStartup setting as activate() read it
    awaiting,         \* panels whose complete/skip handler awaits the state update
    event             \* the handler that ran last

vars == <<process, connected, requestId, pendingRequests, buffer, procs,
          written, calls, connects, input, fed, decoded, typed, stderrLog,
          envFile, saves, globalState, currentPanel, panels, activated,
          showTimer, environment, configuration, awaiting, event>>

clientVars == <<process, connected, requestId, pendingRequests, buffer, procs,
                written, calls, connects>>

framingVars == <<input, fed, decoded>>

typedVars == <<typed>>

diagVars == <<stderrLog>>

envVars == <<envFile, saves>>

onboardingVars == <<globalState, currentPanel, panels, activated, showTimer,
                    environment, configuration, awaiting, event>>

otherVars == <<diagVars, envVars, onboardingVars>>

\* no diagnostic was printed yet
InitDiag == stderrLog = <<>>

\* the .env file does not exist yet
InitEnvFile ==
    /\ envFile = [exists |-> FALSE, content |-> <<>>]
    /\ saves = <<>>

\* the onboarding extension before its first activation
InitOnboarding ==
    /\ globalState = <<>>
    /\ currentPanel = 0
    /\ panels = <<>>
    /\ activated = FALSE
    /\ showTimer = FALSE
    /\ environment = <<>>
    /\ configuration = <<>>
    /\ awaiting = {}
    /\ event = "none"

(* ---- characters and bytes ---- *)
NL == "\n"
SP == " "
LEAD == "C3"         \* first byte of a two-byte UTF-8 sequence
TAIL == "A9"         \* continuation byte
EACUTE == "e'"       \* the character encoded by LEAD TAIL
REPL == "FFFD"       \* U+FFFD, what a decoder emits for an invalid sequence

IdChars == <<"1", "2", "3", "4", "5", "6", "7", "8", "9">>

Kinds == {"r", "e"}

\* "b" stands for ,"result":R,"error":{"code":C,"message":M}}  and "n" for }
\* kinds standing for ,"result":P} with a tool result P, by what
\* P.content[0].text holds:
\*   "rA" the JSON text of a one-element array    "rO" the JSON text of an object
\*   "rX" text that is not JSON                   "rM" P has no content
PayloadKinds == {"rA", "rO", "rX", "rM"}

EnvelopeKinds == Kinds \cup {"b", "n"} \cup PayloadKinds

RemoteCode == -32000             \* response.error.code
RemoteMessage == "remote"        \* response.error.message
ResultValue == "result"          \* response.result
Undefined == "undefined"         \* response.result of an envelope without result
TimeoutMessage == "Request timeout"

EmptyMap == [k \in {} |-> 0]

(* ---- Buffer.toString(): UTF-8 decoding of one chunk ---- *)
RECURSIVE Utf8Decode(_)
Utf8Decode(bytes) ==
    IF bytes = <<>> THEN <<>>
    ELSE IF bytes[1] = LEAD
         THEN IF Len(bytes) >= 2 /\ bytes[2] = TAIL
              THEN <<EACUTE>> \o Utf8Decode(SubSeq(bytes, 3, Len(bytes)))
              ELSE <<REPL>> \o Utf8Decode(Tail(bytes))
         ELSE IF bytes[1] = TAIL
              THEN <<REPL>> \o Utf8Decode(Tail(bytes))
              ELSE <<bytes[1]>> \o Utf8Decode(Tail(bytes))

(* ---- String.prototype.split('\n') ---- *)
RECURSIVE SplitNL(_)
SplitNL(s) ==
    IF \A i \in 1..Len(s) : s[i] # NL THEN <<s>>
    ELSE LET k == CHOOSE i \in 1..Len(s) :
                     s[i] = NL /\ \A j \in 1..(i - 1) : s[j] # NL
         IN <<SubSeq(s, 1, k - 1)>> \o SplitNL(SubSeq(s, k + 1, Len(s)))

\* only the first complete line of a read is kept
CompleteLinesFirstOnly(parts) == SubSeq(parts, 1, IF Len(parts) > 1 THEN 1 ELSE 0)

\* `lines` after `lines.pop()`, for parts = this.buffer.split('\n')
CompleteLines(parts) == SubSeq(parts, 1, Len(parts) - 1)

\* `lines.pop() || ''`
Remainder(parts) == parts[Len(parts)]

\* line.trim() is empty
IsBlank(line) == \A i \in 1..Len(line) : line[i] = SP

NotSP(c) == c # SP

(* ---- JSON.parse(line) as JsonRpcResponse ---- *)
IdOf(ch) == CHOOSE i \in 1..Len(IdChars) : IdChars[i] = ch

JsonParse(line) ==
    LET t == SelectSeq(line, NotSP)
    IN IF Len(t) = 2 /\ (\E i \in 1..Len(IdChars) : IdChars[i] = t[1]) /\ t[2] \in EnvelopeKinds
       THEN [ok |-> TRUE, id |-> IdOf(t[1]), kind |-> t[2]]
       ELSE [ok |-> FALSE, id |-> 0, kind |-> "none"]

(* ---- Map operations on pendingRequests ---- *)
MapHas(m, k) == k \in DOMAIN m

MapSet(m, k, v) == [x \in (DOMAIN m) \cup {k} |-> IF x = k THEN v ELSE m[x]]

MapDelete(m, k) == [x \in (DOMAIN m) \ {k} |-> m[x]]

(* ---- a caller's promise: resolve()/reject() of call c ---- *)
\* settles counts the invocations of resolve or reject; a promise keeps the
\* first outcome.  by is the id of the envelope that settled it (0: none).
Settle(call, outcome, value, by) ==
    IF call.outcome = "pending"
    THEN [call EXCEPT !.outcome = outcome, !.value = value, !.by = by,
                      !.settles = @ + 1]
    ELSE [call EXCEPT !.settles = @ + 1]

\* response.error of an envelope that carries one
ResponseError == [code |-> <<RemoteCode>>, message |-> RemoteMessage]

\* `new Error(message)`: an Error has a message and no code
NewError(message) == [message |-> message, code |-> <<>>]

\* `pending.reject(err)`
Reject(call, err, by) ==
    IF call.outcome = "pending"
    THEN [Settle(call, "rejected", err.message, by) EXCEPT !.code = err.code]
    ELSE Settle(call, "rejected", err.message, by)

\* `if (response.error)`
HasError(kind) == kind \in {"e", "b"}

\* `response.result`
ResultOf(kind) ==
    IF kind \in {"r", "b"} THEN ResultValue
    ELSE IF kind \in PayloadKinds THEN kind
    ELSE Undefined

\* the counter is read but never advanced
NextIdStale(r) == r

\* `const id = ++this.requestId`
NextId(r) == r + 1

(* ---- handleData: the body of the loop for one line ---- *)
\* the caller that has waited longest
Oldest(pend) == CHOOSE k \in DOMAIN pend : \A x \in DOMAIN pend : k <= x

SettleWith(response, st, k) ==
    [pend |-> MapDelete(st.pend, k),
     calls |-> [st.calls EXCEPT ![st.pend[k]] =
         IF HasError(response.kind)
         THEN Reject(@, NewError(ResponseError.message), response.id)
         ELSE Settle(@, "resolved", ResultOf(response.kind), response.id)]]

\* responses are matched to callers first-in first-out instead of by id
RouteLineFifo(line, st) ==
    IF IsBlank(line) THEN st
    ELSE LET response == JsonParse(line)
         IN IF ~response.ok \/ DOMAIN st.pend = {} THEN st
            ELSE SettleWith(response, st, Oldest(st.pend))

\* a response with no matching entry is handed to the oldest caller
RouteLineFallback(line, st) ==
    IF IsBlank(line) THEN st
    ELSE LET response == JsonParse(line)
         IN IF ~response.ok \/ DOMAIN st.pend = {} THEN st
            ELSE IF MapHas(st.pend, response.id)
                 THEN SettleWith(response, st, response.id)
                 ELSE SettleWith(response, st, Oldest(st.pend))

\* an error envelope fails every caller that is waiting, not only its own
RouteLineErrorRejectsAll(line, st) ==
    IF IsBlank(line) THEN st
    ELSE LET response == JsonParse(line)
         IN IF ~response.ok \/ ~MapHas(st.pend, response.id) THEN st
            ELSE IF HasError(response.kind)
                 THEN [pend |-> EmptyMap,
                       calls |-> [c \in 1..Len(st.calls) |->
                           IF \E k \in DOMAIN st.pend : st.pend[k] = c
                           THEN Settle(st.calls[c], "rejected", RemoteMessage, response.id)
                           ELSE st.calls[c]]]
                 ELSE SettleWith(response, st, response.id)

\* st = [pend |-> pendingRequests, calls |-> calls]
RouteLine(line, st) ==
    IF IsBlank(line) THEN st
    ELSE LET response == JsonParse(line)
         IN IF ~response.ok THEN st
            ELSE IF MapHas(st.pend, response.id)
                 THEN LET c == st.pend[response.id]
                      IN [pend |-> MapDelete(st.pend, response.id),
                          calls |-> [st.calls EXCEPT ![c] =
                              IF HasError(response.kind)
                              THEN Reject(@, NewError(ResponseError.message), response.id)
                              ELSE Settle(@, "resolved", ResultOf(response.kind),
                                          response.id)]]
                 ELSE st

\* a line that fails to parse ends the loop: the lines after it are dropped
RECURSIVE RouteLinesAbortOnMalformed(_, _)
RouteLinesAbortOnMalformed(lines, st) ==
    IF lines = <<>> THEN st
    ELSE IF ~IsBlank(Head(lines)) /\ ~JsonParse(Head(lines)).ok THEN st
         ELSE RouteLinesAbortOnMalformed(Tail(lines), RouteLine(Head(lines), st))

\* a blank line ends the loop instead of being skipped
RECURSIVE RouteLinesStopAtBlank(_, _)
RouteLinesStopAtBlank(lines, st) ==
    IF lines = <<>> THEN st
    ELSE IF IsBlank(Head(lines)) THEN st
         ELSE RouteLinesStopAtBlank(Tail(lines), RouteLine(Head(lines), st))

\* `for (const line of lines)`
RECURSIVE RouteLines(_, _)
RouteLines(lines, st) ==
    IF lines = <<>> THEN st
    ELSE RouteLines(Tail(lines), RouteLine(Head(lines), st))

(* ---- connect(): the continuation of initialize() ---- *)
NewlySettled(old, new, c, outcome) ==
    /\ old[c].method = "initialize"
    /\ old[c].outcome = "pending"
    /\ new[c].outcome = outcome

\* `.then(() => { this.connected = true; resolve(); })`
ConnectedAfter(old, new, conn) ==
    IF \E c \in 1..Len(old) : NewlySettled(old, new, c, "resolved")
    THEN TRUE ELSE conn

\* `resolve()` / `.catch(reject)` on the promise of the connect() that issued it
ConnectsAfter(old, new, cs) ==
    [i \in 1..Len(cs) |->
        IF cs[i].state # "pending" THEN cs[i]
        ELSE IF \E c \in 1..Len(old) :
                    old[c].conn = i /\ NewlySettled(old, new, c, "resolved")
             THEN [cs[i] EXCEPT !.state = "resolved"]
             ELSE IF \E c \in 1..Len(old) :
                         old[c].conn = i /\ NewlySettled(old, new, c, "rejected")
                  THEN [cs[i] EXCEPT !.state = "rejected"]
                  ELSE cs[i]]

(* ---- handleData(data) ---- *)
\* the pending map and the callers after the loop over the complete lines
Routed(data) ==
    RouteLines(CompleteLines(SplitNL(buffer \o data)),
               [pend |-> pendingRequests, calls |-> calls])

HandleData(data) ==
    LET after == Routed(data)
    IN /\ buffer' = Remainder(SplitNL(buffer \o data))
       /\ pendingRequests' = after.pend
       /\ calls' = after.calls
       /\ connected' = ConnectedAfter(calls, after.calls, connected)
       /\ connects' = ConnectsAfter(calls, after.calls, connects)

(* ---- call(method, params): the part after the stdin check ---- *)
NewCall(id, method, conn, p) ==
    [id |-> id, method |-> method, conn |-> conn, proc |-> p,
     outcome |-> "pending", value |-> "none", code |-> <<>>, by |-> 0,
     settles |-> 0, timer |-> "armed"]

\* `const request: JsonRpcRequest = { jsonrpc: '2.0', method, params, id }`
Request(id, method, params) ==
    [jsonrpc |-> "2.0", method |-> method, params |-> params, id |-> id]

\* the params of the handshake
InitializeParams ==
    [protocolVersion |-> "0.1.0",
     capabilities |-> EmptyMap,
     clientInfo |-> [name |-> "caiide-memory", version |-> "0.1.0"]]

\* the params of a typed method: `{ name, arguments }`
ToolParams(name, arguments) == [name |-> name, arguments |-> arguments]

\* the request line is put in front of the lines already written
IssueCallWritesFirst(method, params, conn, p) ==
    LET id == NextId(requestId)
    IN /\ requestId' = id
       /\ pendingRequests' = MapSet(pendingRequests, id, Len(calls) + 1)
       /\ written' = [written EXCEPT ![p] = <<Request(id, method, params)>> \o @]
       /\ calls' = Append(calls, NewCall(id, method, conn, p))

IssueCall(method, params, conn, p) ==
    LET id == NextId(requestId)
    IN /\ requestId' = id
       /\ pendingRequests' = MapSet(pendingRequests, id, Len(calls) + 1)
       /\ written' = [written EXCEPT ![p] = Append(@, Request(id, method, params))]
       /\ calls' = Append(calls, NewCall(id, method, conn, p))

(* ---- the output a worker may produce in one read ---- *)
RespLine(i, k) == <<IdChars[i], k, NL>>

RespLines == {RespLine(i, k) : i \in 1..MaxCalls, k \in Kinds}

OtherLines == {<<NL>>, <<SP, NL>>, <<"r", NL>>}

\* envelopes that carry both a result and an error, or neither
OddLines == {RespLine(i, k) : i \in 1..MaxOdd, k \in {"b", "n"}}

\* an empty line and a whitespace-only line in front of a response
BlankLed == {<<NL, SP, NL>> \o RespLine(i, "r") : i \in 1..MaxCalls}

Chunks ==
    RespLines \cup OtherLines \cup OddLines \cup BlankLed
    \cup {RespLine(i, "e") \o RespLine(j, "r") : i, j \in 1..MaxCalls}
    \cup {<<IdChars[i]>> : i \in 1..MaxSplit}
    \cup {<<k, NL>> : k \in Kinds}

(* ---- operations ---- *)
\* connect() without the early return: it spawns whatever the state
ConnectAlwaysSpawns(ok) ==
    /\ Len(procs) < MaxProcs
    /\ Len(calls) < MaxCalls
    /\ LET p == Len(procs) + 1
       IN /\ procs' = Append(procs, IF ok THEN "alive" ELSE "failed")
          /\ process' = p
          /\ connects' = Append(connects, [proc |-> p, state |-> "pending"])
          /\ IssueCall("initialize", InitializeParams, Len(connects) + 1, p)
    /\ UNCHANGED <<connected, buffer>>
    /\ UNCHANGED <<framingVars, typedVars, otherVars>>

\* connect() that starts the id sequence again for the new worker
ConnectRestartsIds(ok) ==
    IF connected /\ process # 0
    THEN UNCHANGED vars
    ELSE /\ Len(procs) < MaxProcs
         /\ Len(calls) < MaxCalls
         /\ LET p == Len(procs) + 1
            IN /\ procs' = Append(procs, IF ok THEN "alive" ELSE "failed")
               /\ process' = p
               /\ connects' = Append(connects, [proc |-> p, state |-> "pending"])
               /\ requestId' = 1
               /\ pendingRequests' = MapSet(pendingRequests, 1, Len(calls) + 1)
               /\ written' = [written EXCEPT ![p] =
                                 Append(@, Request(1, "initialize", InitializeParams))]
               /\ calls' = Append(calls, NewCall(1, "initialize", Len(connects) + 1, p))
         /\ UNCHANGED <<connected, buffer>>
         /\ UNCHANGED <<framingVars, typedVars, otherVars>>

\* connect()
Connect(ok) ==
    IF connected /\ process # 0
    THEN UNCHANGED vars
    ELSE /\ Len(procs) < MaxProcs
         /\ Len(calls) < MaxCalls
         /\ LET p == Len(procs) + 1
            IN /\ procs' = Append(procs, IF ok THEN "alive" ELSE "failed")
               /\ process' = p
               /\ connects' = Append(connects, [proc |-> p, state |-> "pending"])
               /\ IssueCall("initialize", InitializeParams, Len(connects) + 1, p)
         /\ UNCHANGED <<connected, buffer>>
         /\ UNCHANGED <<framingVars, typedVars, otherVars>>

\* the params of the typed method the lifecycle is explored with: list()
SomeToolParams == ToolParams("memory_list", [limit |-> 20])

\* any typed method: call('tools/call', ...)
ToolCall ==
    IF process = 0
    THEN UNCHANGED vars
    ELSE /\ Len(calls) < MaxCalls
         /\ IssueCall("tools/call", SomeToolParams, 0, process)
         /\ UNCHANGED <<process, connected, buffer, procs, connects>>
         /\ UNCHANGED <<framingVars, typedVars, otherVars>>

\* the timer rejects the caller but leaves its entry in the pending map
TimerFireKeepsEntry(c) ==
    /\ c <= Len(calls)
    /\ calls[c].timer = "armed"
    /\ LET fired == [calls EXCEPT ![c].timer = "fired"]
           new == IF MapHas(pendingRequests, calls[c].id)
                  THEN [fired EXCEPT ![c] = Settle(@, "rejected", TimeoutMessage, 0)]
                  ELSE fired
       IN /\ calls' = new
          /\ connected' = ConnectedAfter(calls, new, connected)
          /\ connects' = ConnectsAfter(calls, new, connects)
    /\ UNCHANGED <<process, requestId, pendingRequests, buffer, procs, written>>
    /\ UNCHANGED <<framingVars, typedVars, otherVars>>

\* the timer gives up once the client holds no process
TimerFireWhileConnected(c) ==
    /\ c <= Len(calls)
    /\ calls[c].timer = "armed"
    /\ LET fired == [calls EXCEPT ![c].timer = "fired"]
           hit == process # 0 /\ MapHas(pendingRequests, calls[c].id)
           new == IF hit
                  THEN [fired EXCEPT ![c] = Settle(@, "rejected", TimeoutMessage, 0)]
                  ELSE fired
       IN /\ calls' = new
          /\ pendingRequests' = IF hit THEN MapDelete(pendingRequests, calls[c].id)
                                ELSE pendingRequests
          /\ connected' = ConnectedAfter(calls, new, connected)
          /\ connects' = ConnectsAfter(calls, new, connects)
    /\ UNCHANGED <<process, requestId, buffer, procs, written>>
    /\ UNCHANGED <<framingVars, typedVars, otherVars>>

\* the timer rejects without looking the id up in the pending map
TimerFireUnchecked(c) ==
    /\ c <= Len(calls)
    /\ calls[c].timer = "armed"
    /\ LET new == [calls EXCEPT ![c] =
                      Settle([@ EXCEPT !.timer = "fired"], "rejected", TimeoutMessage, 0)]
       IN /\ calls' = new
          /\ pendingRequests' = MapDelete(pendingRequests, calls[c].id)
          /\ connected' = ConnectedAfter(calls, new, connected)
          /\ connects' = ConnectsAfter(calls, new, connects)
    /\ UNCHANGED <<process, requestId, buffer, procs, written>>
    /\ UNCHANGED <<framingVars, typedVars, otherVars>>

\* the timer set by call number c fires
TimerFire(c) ==
    /\ c <= Len(calls)
    /\ calls[c].timer = "armed"
    /\ LET fired == [calls EXCEPT ![c].timer = "fired"]
           new == IF MapHas(pendingRequests, calls[c].id)
                  THEN [fired EXCEPT ![c] = Settle(@, "rejected", TimeoutMessage, 0)]
                  ELSE fired
       IN /\ calls' = new
          /\ pendingRequests' = IF MapHas(pendingRequests, calls[c].id)
                                THEN MapDelete(pendingRequests, calls[c].id)
                                ELSE pendingRequests
          /\ connected' = ConnectedAfter(calls, new, connected)
          /\ connects' = ConnectsAfter(calls, new, connects)
    /\ UNCHANGED <<process, requestId, buffer, procs, written>>
    /\ UNCHANGED <<framingVars, typedVars, otherVars>>

\* stdout 'data' of worker p
StdoutData(p, chunk) ==
    /\ p <= Len(procs)
    /\ procs[p] \in {"alive", "killed"}
    /\ HandleData(Utf8Decode(chunk))
    /\ Len(buffer') <= MaxBuf
    /\ UNCHANGED <<process, requestId, procs, written>>
    /\ UNCHANGED <<framingVars, typedVars, otherVars>>

\* 'error' event of worker p (the spawn failed)
ProcError(p) ==
    /\ p <= Len(procs)
    /\ procs[p] = "failed"
    /\ procs' = [procs EXCEPT ![p] = "errored"]
    /\ connected' = FALSE
    /\ connects' = [i \in 1..Len(connects) |->
                      IF connects[i].proc = p /\ connects[i].state = "pending"
                      THEN [connects[i] EXCEPT !.state = "rejected"]
                      ELSE connects[i]]
    /\ UNCHANGED <<process, requestId, pendingRequests, buffer, written, calls>>
    /\ UNCHANGED <<framingVars, typedVars, otherVars>>

\* 'close' event of worker p
ProcClose(p) ==
    /\ p <= Len(procs)
    /\ procs[p] \in {"alive", "killed", "errored"}
    /\ procs' = [procs EXCEPT ![p] = "closed"]
    /\ connected' = FALSE
    /\ UNCHANGED <<process, requestId, pendingRequests, buffer, written, calls, connects>>
    /\ UNCHANGED <<framingVars, typedVars, otherVars>>

\* disconnect() that resets the client whether or not it holds a process
DisconnectResetsAlways ==
    /\ procs' = [p \in 1..Len(procs) |->
                    IF p = process /\ procs[p] = "alive" THEN "killed" ELSE procs[p]]
    /\ process' = 0
    /\ connected' = FALSE
    /\ buffer' = <<>>
    /\ UNCHANGED <<requestId, pendingRequests, written, calls, connects>>
    /\ UNCHANGED <<framingVars, typedVars, otherVars>>

\* disconnect()
Disconnect ==
    IF process # 0
    THEN /\ procs' = [procs EXCEPT ![process] = IF @ = "alive" THEN "killed" ELSE @]
         /\ process' = 0
         /\ connected' = FALSE
         /\ UNCHANGED <<requestId, pendingRequests, buffer, written, calls, connects>>
         /\ UNCHANGED <<framingVars, typedVars, otherVars>>
    ELSE UNCHANGED vars

Init ==
    /\ process = 0
    /\ connected = FALSE
    /\ requestId = 0
    /\ pendingRequests = EmptyMap
    /\ buffer = <<>>
    /\ procs = <<>>
    /\ written = [p \in 1..MaxProcs |-> <<>>]
    /\ calls = <<>>
    /\ connects = <<>>
    /\ input = <<>>
    /\ fed = 0
    /\ decoded = <<>>
    /\ typed = <<>>
    /\ InitDiag
    /\ InitEnvFile
    /\ InitOnboarding

Next ==
    \/ \E ok \in BOOLEAN : Connect(ok)
    \/ ToolCall
    \/ \E c \in 1..MaxCalls : TimerFire(c)
    \/ \E p \in 1..MaxProcs : \E chunk \in Chunks : StdoutData(p, chunk)
    \/ \E p \in 1..MaxProcs : ProcError(p)
    \/ \E p \in 1..MaxProcs : ProcClose(p)
    \/ Disconnect

Spec == Init /\ [][Next]_vars

TypeOK ==
    /\ process \in 0..MaxProcs
    /\ connected \in BOOLEAN
    /\ requestId \in 0..MaxCalls
    /\ Len(calls) <= MaxCalls

(* ---- observations used by the properties ---- *)
\* call c is the caller registered under its id
IsPending(c) ==
    /\ MapHas(pendingRequests, calls[c].id)
    /\ pendingRequests[calls[c].id] = c

CanRead(p) == p \in 1..Len(procs) /\ procs[p] \in {"alive", "killed"}

\* the newline-terminated lines of a text, by the positions of its line feeds
NLPositions(t) == {i \in 1..Len(t) : t[i] = NL}

NthNL(t, k) ==
    CHOOSE i \in NLPositions(t) : Cardinality({j \in NLPositions(t) : j <= i}) = k

TerminatedLines(t) ==
    [k \in 1..Cardinality(NLPositions(t)) |->
        SubSeq(t, IF k = 1 THEN 1 ELSE NthNL(t, k - 1) + 1, NthNL(t, k) - 1)]

(* ---- C1 ---- *)
\* C1: every request gets an id different from all ids assigned earlier, and
\* ids are strictly increasing in the order call was invoked (the handshake
\* call included, and whether or not responses have arrived).
IdsStrictlyIncreasing ==
    \A i, j \in 1..Len(calls) : i < j => calls[i].id < calls[j].id

\* a handshake and two typed calls are outstanding, none answered
WitnessIdsIssuedBeforeAnyResponse ==
    /\ Len(calls) = 3
    /\ \A c \in 1..3 : IsPending(c) /\ calls[c].settles = 0
    /\ calls[1].method = "initialize"
    /\ calls[3].method = "tools/call"

(* ---- C2 ---- *)
\* C2: a caller receives at most one outcome: resolve/reject is invoked at
\* most once per request whatever the interleaving of response, timeout and
\* disconnect, and a settled request is no longer in the pending set.
AtMostOneOutcome ==
    \A c \in 1..Len(calls) :
        /\ calls[c].settles <= 1
        /\ (calls[c].settles = 0) = (calls[c].outcome = "pending")
        /\ (calls[c].outcome # "pending" => ~IsPending(c))

\* the response won the race: the timer of a resolved call fired afterwards
WitnessResponseBeatsTimer ==
    \E c \in 1..Len(calls) :
        /\ calls[c].outcome = "resolved"
        /\ calls[c].timer = "fired"
        /\ calls[c].settles = 1
        /\ process = 0

(* ---- C6 ---- *)
\* every timer set by setTimeout fires: the event loop runs a due timer
Fairness == \A c \in 1..MaxCalls : WF_vars(TimerFire(c))

LiveSpec == Init /\ [][Next]_vars /\ Fairness

\* C6: every call that registered a pending request is eventually settled
\* and its entry eventually leaves the pending set, whatever the worker does.
EventuallySettled ==
    \A c \in 1..MaxCalls :
        (Len(calls) >= c) ~>
            (/\ Len(calls) >= c
             /\ calls[c].outcome # "pending"
             /\ ~MapHas(pendingRequests, calls[c].id))

\* a call to a worker that exited without answering was settled by its timer
WitnessSettledAfterWorkerGone ==
    \E c \in 1..Len(calls) :
        /\ calls[c].method = "tools/call"
        /\ calls[c].value = TimeoutMessage
        /\ calls[c].settles = 1
        /\ procs[calls[c].proc] = "closed"
        /\ process = 0
        /\ DOMAIN pendingRequests = {}

(* ---- C7 ---- *)
\* C7: a caller is resolved only by the response envelope whose id equals
\* the id of its own request, in whatever order the responses arrive.
ResolvedByOwnResponse ==
    \A c \in 1..Len(calls) :
        calls[c].outcome = "resolved" =>
            /\ calls[c].by = calls[c].id
            /\ calls[c].value \in {ResultValue, Undefined}

\* the response to a later request arrived first
WitnessReverseOrder ==
    \E c1, c2 \in 1..Len(calls) :
        /\ c1 < c2
        /\ calls[c1].method = "tools/call"
        /\ IsPending(c1)
        /\ calls[c2].outcome = "resolved"
        /\ calls[c2].by = calls[c2].id

(* ---- C3 ---- *)
\* C3: disconnect() with N pending calls rejects all N with a
\* closed-connection error and leaves the pending set empty.
DisconnectRejectsAllPending ==
    [][(Disconnect /\ process # 0) =>
          /\ DOMAIN pendingRequests' = {}
          /\ \A c \in 1..Len(calls) :
                IsPending(c) => /\ calls'[c].outcome = "rejected"
                                /\ calls'[c].value = "Connection closed"
                                /\ calls'[c].settles = 1]_vars

(* ---- C4 ---- *)
\* C4: when the worker held by the client exits ('close'), the client becomes
\* disconnected and every pending request is rejected with a
\* connection-closed error and removed from the pending set.
CloseRejectsAllPending ==
    [][(process # 0 /\ ProcClose(process)) =>
          /\ connected' = FALSE
          /\ DOMAIN pendingRequests' = {}
          /\ \A c \in 1..Len(calls) :
                IsPending(c) => /\ calls'[c].outcome = "rejected"
                                /\ calls'[c].value = "Connection closed"]_vars

(* ---- C5 ---- *)
\* what every stdout 'data' step leaves alone: no other step that changes the
\* pending set or a caller does
ReadStep ==
    /\ UNCHANGED <<process, requestId, procs, written>>
    /\ \A c \in 1..Len(calls) : calls'[c].timer = calls[c].timer

\* the lines completed by a read of chunk in the current state
ReadLines(chunk) == TerminatedLines(buffer \o Utf8Decode(chunk))

\* the ids of the response envelopes among the lines
EnvelopeIds(lines) ==
    {JsonParse(lines[i]).id : i \in {j \in 1..Len(lines) : JsonParse(lines[j]).ok}}

TimedOutIds ==
    {calls[c].id : c \in {x \in 1..Len(calls) : calls[x].value = TimeoutMessage}}

\* a read all of whose envelopes answer requests that timed out
LateRead(chunk) ==
    LET ids == EnvelopeIds(ReadLines(chunk))
    IN ids # {} /\ ids \subseteq TimedOutIds

\* C5: when the timer of a pending call fires the call fails with the timeout
\* error and leaves the pending set; from then on the call never changes
\* again, and a read that carries only responses to timed-out ids changes
\* neither the pending set nor any caller.
TimeoutThenLateResponseDiscarded ==
    [][/\ \A c \in 1..Len(calls) :
             (calls'[c].timer # calls[c].timer /\ IsPending(c) /\ TimerFire(c)) =>
                 /\ calls'[c].outcome = "rejected"
                 /\ calls'[c].value = TimeoutMessage
                 /\ ~MapHas(pendingRequests', calls[c].id)
       /\ \A c \in 1..Len(calls) :
             calls[c].value = TimeoutMessage => calls'[c] = calls[c]
       /\ (ReadStep /\ ~UNCHANGED <<pendingRequests, calls, connected, connects>>) =>
             ~(\E chunk \in Chunks :
                   LateRead(chunk) /\ \E p \in 1..MaxProcs : StdoutData(p, chunk))]_vars

\* a call has timed out, another is still pending, and the worker it was
\* sent to can still deliver output
WitnessTimedOutWorkerAlive ==
    \E c, d \in 1..Len(calls) :
        /\ calls[c].outcome = "rejected"
        /\ calls[c].value = TimeoutMessage
        /\ calls[c].settles = 1
        /\ ~MapHas(pendingRequests, calls[c].id)
        /\ CanRead(calls[c].proc)
        /\ IsPending(d)

(* ---- C8 ---- *)
\* a read all of whose envelopes carry ids absent from the pending set
OrphanRead(chunk) ==
    LET ids == EnvelopeIds(ReadLines(chunk))
    IN ids # {} /\ ids \cap DOMAIN pendingRequests = {}

\* C8: in every reachable state, handling a read whose response lines all
\* carry ids that are not pending settles no caller and leaves the pending
\* set, every entry and the connection state as they were.
UnknownIdDiscarded ==
    \A chunk \in Chunks :
        OrphanRead(chunk) =>
            LET after == Routed(Utf8Decode(chunk))
            IN /\ after.pend = pendingRequests
               /\ after.calls = calls
               /\ ConnectedAfter(calls, after.calls, connected) = connected
               /\ ConnectsAfter(calls, after.calls, connects) = connects

\* one id was answered, one timed out, one was never issued, and a call is
\* still pending while the worker can deliver output
WitnessOrphanIds ==
    /\ requestId < MaxCalls
    /\ CanRead(process)
    /\ \E a, b \in 1..Len(calls) :
          /\ IsPending(a)
          /\ calls[b].outcome = "resolved"
          /\ ~MapHas(pendingRequests, calls[b].id)

(* ---- C10 ---- *)
Min(S) == CHOOSE k \in S : \A x \in S : k <= x

\* the lines of a read that answer call c
Hits(lines, c) ==
    {i \in 1..Len(lines) : JsonParse(lines[i]).ok /\ JsonParse(lines[i]).id = calls[c].id}

\* C10: whatever complete lines one read holds, a pending call answered by
\* one of them is settled exactly once, by the first line carrying its id,
\* and a call answered by none of them is left as it was.
EveryLineRoutedOnce ==
    \A chunk \in Chunks :
        LET lines == ReadLines(chunk)
            after == Routed(Utf8Decode(chunk))
        IN \A c \in 1..Len(calls) :
              IF IsPending(c) /\ Hits(lines, c) # {}
              THEN /\ after.calls[c].settles = calls[c].settles + 1
                   /\ after.calls[c].by = calls[c].id
                   /\ after.calls[c].outcome =
                        (IF HasError(JsonParse(lines[Min(Hits(lines, c))]).kind)
                         THEN "rejected" ELSE "resolved")
                   /\ ~MapHas(after.pend, calls[c].id)
              ELSE /\ after.calls[c] = calls[c]
                   /\ MapHas(after.pend, calls[c].id) = MapHas(pendingRequests, calls[c].id)

\* two calls are pending and the worker can deliver one read answering both
WitnessTwoMessagesOneRead ==
    /\ CanRead(process)
    /\ buffer = <<>>
    /\ \E chunk \in Chunks : \E c, d \in 1..Len(calls) :
          /\ c # d
          /\ IsPending(c) /\ IsPending(d)
          /\ Len(ReadLines(chunk)) = 2
          /\ Hits(ReadLines(chunk), c) = {2}
          /\ Hits(ReadLines(chunk), d) = {1}

(* ---- framing: the worker's output cut into reads ---- *)
Bytes == {NL, SP, "1", "r", LEAD, TAIL}

RECURSIVE ByteStrings(_)
ByteStrings(n) ==
    IF n = 0 THEN {<<>>}
    ELSE ByteStrings(n - 1)
         \cup {Append(s, b) : s \in {t \in ByteStrings(n - 1) : Len(t) = n - 1}, b \in Bytes}

\* the client right after its first connect() spawned the worker
InitFraming ==
    /\ process = 1
    /\ connected = FALSE
    /\ requestId = 1
    /\ pendingRequests = MapSet(EmptyMap, 1, 1)
    /\ buffer = <<>>
    /\ procs = <<"alive">>
    /\ written = [p \in 1..MaxProcs |->
                    IF p = 1 THEN <<Request(1, "initialize", InitializeParams)>>
                    ELSE <<>>]
    /\ calls = <<NewCall(1, "initialize", 1, 1)>>
    /\ connects = <<[proc |-> 1, state |-> "pending"]>>
    /\ input \in ByteStrings(MaxInput)
    /\ fed = 0
    /\ decoded = <<>>
    /\ typed = <<>>
    /\ InitDiag
    /\ InitEnvFile
    /\ InitOnboarding

\* stdout 'data' with the next n bytes of the worker's output
Feed(n) ==
    /\ fed + n <= Len(input)
    /\ LET data == Utf8Decode(SubSeq(input, fed + 1, fed + n))
       IN /\ HandleData(data)
          /\ decoded' = decoded \o CompleteLines(SplitNL(buffer \o data))
    /\ fed' = fed + n
    /\ UNCHANGED <<process, requestId, procs, written, input>>
    /\ UNCHANGED <<typedVars, otherVars>>

NextFraming == \E n \in 1..MaxInput : Feed(n)

SpecFraming == InitFraming /\ [][NextFraming]_vars

(* ---- C9 ---- *)
\* C9: however the worker's bytes are cut into reads, once all of them were
\* delivered the complete lines handed to the decoder are those of a single
\* read of the whole output, and the retained partial line is the same.
ChunkingIndependent ==
    fed = Len(input) =>
        /\ decoded = CompleteLines(SplitNL(Utf8Decode(input)))
        /\ buffer = Remainder(SplitNL(Utf8Decode(input)))

(* ---- C11 ---- *)
\* JSON.parse(line) throws
Malformed(line) == ~IsBlank(line) /\ ~JsonParse(line).ok

WellFormed(line) == ~Malformed(line)

\* C11: a line that fails to parse is skipped: a read holding malformed
\* lines leaves the pending set and every caller exactly as the same read
\* without those lines would, so it settles nobody by itself and the lines
\* after it, in this read and in later ones, are routed as usual.
MalformedLineSkipped ==
    \A chunk \in Chunks :
        LET lines == ReadLines(chunk)
            after == Routed(Utf8Decode(chunk))
            clean == RouteLines(SelectSeq(lines, WellFormed),
                                [pend |-> pendingRequests, calls |-> calls])
        IN (\E i \in 1..Len(lines) : Malformed(lines[i])) =>
              /\ after = clean
              /\ ((\A i \in 1..Len(lines) : Malformed(lines[i]) \/ IsBlank(lines[i])) =>
                     after.pend = pendingRequests /\ after.calls = calls)

\* a call is pending and one read can deliver a malformed line followed by
\* the response to that call
WitnessMalformedThenResponse ==
    /\ CanRead(process)
    /\ \E chunk \in Chunks : \E c \in 1..Len(calls) :
          /\ IsPending(c)
          /\ calls[c].method = "tools/call"
          /\ Len(ReadLines(chunk)) = 2
          /\ Malformed(ReadLines(chunk)[1])
          /\ Hits(ReadLines(chunk), c) = {2}

(* ---- C12 ---- *)
\* C12: a typed method invoked while the client is not connected (never
\* connected, handshake still outstanding, disconnected, or worker exited)
\* fails without registering a request or writing anything to a worker.
NotReadyCallWritesNothing ==
    [][(~connected /\ ToolCall) =>
          /\ written' = written
          /\ pendingRequests' = pendingRequests
          /\ requestId' = requestId]_vars

(* ---- C13 ---- *)
\* C13: when the latest connect() fails (spawn failure, handshake error
\* response or handshake timeout) the client is left disconnected: it is not
\* connected and it holds no worker process, so no typed method can write.
FailedConnectLeavesDisconnected ==
    [][\A i \in 1..Len(connects) :
          (/\ i = Len(connects)
           /\ connects[i].state = "pending"
           /\ connects'[i].state = "rejected") =>
              /\ connected' = FALSE
              /\ process' = 0]_vars

(* ---- C14 ---- *)
\* the handshake sent to worker p was answered with a result
HandshakeDone(p) ==
    \E c \in 1..Len(calls) :
        /\ calls[c].method = "initialize"
        /\ calls[c].proc = p
        /\ calls[c].outcome = "resolved"

\* C14: the client is connected (isConnected() is true) only while it holds
\* a worker process that has not exited and whose own handshake succeeded;
\* after an exit or a disconnect() it takes a new process and a new
\* handshake to be connected again.
ReadyOnlyAfterOwnHandshake ==
    connected =>
        /\ process # 0
        /\ procs[process] = "alive"
        /\ HandshakeDone(process)

(* ---- C15 ---- *)
\* the handshake requests written so far, over all workers
Handshakes(w) ==
    {x \in (1..MaxProcs) \X (1..MaxCalls) :
        x[2] <= Len(w[x[1]]) /\ w[x[1]][x[2]].method = "initialize"}

HandshakeFirstAndOnce ==
    [][\A p \in 1..MaxProcs :
          /\ (Len(written'[p]) > 0 => written'[p][1].method = "initialize")
          /\ Cardinality({x \in Handshakes(written') : x[1] = p}) <= 1
          /\ (/\ Len(written'[p]) > Len(written[p])
              /\ written'[p][Len(written'[p])].method = "tools/call") =>
                 HandshakeDone(p)]_vars

(* ---- C17 ---- *)
\* the request of call c is among the lines written to its worker
WasWritten(c) ==
    \E i \in 1..Len(written[calls[c].proc]) :
        written[calls[c].proc][i].id = calls[c].id

\* the worker call c was sent to has exited or was killed by disconnect()
ConnectionClosed(c) == procs[calls[c].proc] \in {"killed", "closed"}

\* written, and neither answered nor timed out
Unsettled == {c \in 1..Len(calls) : WasWritten(c) /\ calls[c].outcome = "pending"}

\* C17: the pending set is exactly the set of ids of the requests that were
\* written to a worker and are neither answered, nor timed out, nor closed
\* with their connection.
PendingEqualsOutstanding ==
    DOMAIN pendingRequests = {calls[c].id : c \in {x \in Unsettled : ~ConnectionClosed(x)}}

(* ---- C18 ---- *)
\* a read whose first line is an error envelope for a pending id: only the
\* caller of that id is rejected, a caller answered by a later line of the
\* read is still settled by its own response, every other caller and entry
\* is as before
ErrorReadIsolated ==
    \A chunk \in Chunks :
        LET lines == ReadLines(chunk)
            after == Routed(Utf8Decode(chunk))
            first == JsonParse(lines[1])
        IN (/\ Len(lines) >= 1
            /\ first.ok /\ first.kind = "e"
            /\ MapHas(pendingRequests, first.id)) =>
              \A d \in 1..Len(calls) :
                  IF calls[d].id = first.id
                  THEN IsPending(d) =>
                         /\ after.calls[d].outcome = "rejected"
                         /\ after.calls[d].value = RemoteMessage
                  ELSE IF IsPending(d) /\ Hits(lines, d) # {}
                       THEN /\ after.calls[d].by = calls[d].id
                            /\ after.calls[d].settles = 1
                       ELSE /\ after.calls[d] = calls[d]
                            /\ IsPending(d) =>
                                  /\ MapHas(after.pend, calls[d].id)
                                  /\ after.pend[calls[d].id] = d

\* the step in which the timer of call c fires changes no other caller and
\* no other entry of the pending set
TimeoutIsolated ==
    \A c \in 1..Len(calls) :
        calls'[c].timer # calls[c].timer =>
            \A d \in 1..Len(calls) :
                d # c =>
                    /\ calls'[d] = calls[d]
                    /\ IsPending(d) =>
                          /\ MapHas(pendingRequests', calls[d].id)
                          /\ pendingRequests'[calls[d].id] = d

RemoteErrorCarriesCodeAndMessage ==
    \A c \in 1..Len(calls) :
        (calls[c].outcome = "rejected" /\ calls[c].by = calls[c].id) =>
            /\ calls[c].value = ResponseError.message
            /\ calls[c].code = ResponseError.code

(* ---- C20 ---- *)
\* C20: a pending call answered by an envelope that carries both a result
\* and an error, or neither of them, is not resolved as a success.
ExactlyOneOfResultAndError ==
    \A chunk \in Chunks :
        LET lines == ReadLines(chunk)
            after == Routed(Utf8Decode(chunk))
            first == JsonParse(lines[1])
        IN (/\ Len(lines) >= 1
            /\ first.ok /\ first.kind \in {"b", "n"}) =>
              \A d \in 1..Len(calls) :
                  (IsPending(d) /\ calls[d].id = first.id) =>
                      after.calls[d].outcome # "resolved"

(* ---- C21 ---- *)
SentTo(call, p) == call.proc = p

\* the calls that wrote to worker p, in invocation order
CallsTo(p) == SelectSeq(calls, LAMBDA call : SentTo(call, p))

Queries == {"foo"}

Limits == {20, 5}

EntryIds == {"1"}

Contents == {"foo"}

\* every typed method names the search tool
ToolNameAlwaysSearch(m) == "memory_search"

\* `name:` in the params of each typed method
ToolName(m) ==
    CASE m = "search" -> "memory_search"
      [] m = "store" -> "memory_store"
      [] m = "recall" -> "memory_recall"
      [] m = "list" -> "memory_list"
      [] m = "getStats" -> "memory_stats"
      [] m = "delete" -> "memory_delete"

\* call() takes the next id before it looks at the process
InvokeCountsFirst(m, arguments) ==
    /\ Len(typed) < MaxTyped
    /\ IF process = 0
       THEN /\ typed' = Append(typed, [method |-> m, call |-> 0])
            /\ requestId' = NextId(requestId)
            /\ UNCHANGED <<pendingRequests, written, calls>>
       ELSE /\ Len(calls) < MaxCalls
            /\ IssueCall("tools/call", ToolParams(ToolName(m), arguments), 0, process)
            /\ typed' = Append(typed, [method |-> m, call |-> Len(calls) + 1])
    /\ UNCHANGED <<process, connected, buffer, procs, connects>>
    /\ UNCHANGED <<framingVars, otherVars>>

\* a typed method m called with arguments: `await this.call('tools/call', ...)`
Invoke(m, arguments) ==
    /\ Len(typed) < MaxTyped
    /\ IF process = 0
       THEN /\ typed' = Append(typed, [method |-> m, call |-> 0])
            /\ UNCHANGED <<requestId, pendingRequests, written, calls>>
       ELSE /\ Len(calls) < MaxCalls
            /\ IssueCall("tools/call", ToolParams(ToolName(m), arguments), 0, process)
            /\ typed' = Append(typed, [method |-> m, call |-> Len(calls) + 1])
    /\ UNCHANGED <<process, connected, buffer, procs, connects>>
    /\ UNCHANGED <<framingVars, otherVars>>

\* search(query, limit)
Search(query, limit) == Invoke("search", [query |-> query, limit |-> limit])

\* store(content, type, source, tags)
Store(content) ==
    Invoke("store", [content |-> content, type |-> "note", source |-> "x", tags |-> <<>>])

\* recall(id)
Recall(id) == Invoke("recall", [id |-> id])

\* list(limit)
List(limit) == Invoke("list", [limit |-> limit])

\* getStats()
GetStats == Invoke("getStats", EmptyMap)

\* delete(id)
Delete(id) == Invoke("delete", [id |-> id])

(* ---- decoding of the result of a typed method ---- *)
TextEntries == "[{\"id\":\"1\",\"content\":\"foo\",\"doc_type\":\"note\",\"source\":\"x\"}]"
TextObject == "{\"id\":\"1\",\"content\":\"foo\",\"doc_type\":\"note\",\"source\":\"x\"}"
TextGarbage == "not json"
NoText == ""

\* the text of a result is never found
TextOfNothing(result) == NoText

\* `result?.content?.[0]?.text`
TextOf(result) ==
    CASE result = "rA" -> TextEntries
      [] result = "rO" -> TextObject
      [] result = "rX" -> TextGarbage
      [] OTHER -> NoText

EntryOne == [id |-> "1", content |-> "foo", doc_type |-> "note", source |-> "x"]

\* values a typed method returns: type is what the value is, items what it holds
EmptySequence == [type |-> "array", items |-> <<>>]
Null == [type |-> "null", items |-> <<>>]
Void == [type |-> "undefined", items |-> <<>>]
DefaultStats ==
    [type |-> "object", items |-> <<[total_documents |-> 0, components |-> EmptyMap]>>]

\* JSON.parse(text)
JsonParseText(text) ==
    CASE text = TextEntries -> [ok |-> TRUE, value |-> [type |-> "array", items |-> <<EntryOne>>]]
      [] text = TextObject -> [ok |-> TRUE, value |-> [type |-> "object", items |-> <<EntryOne>>]]
      [] OTHER -> [ok |-> FALSE, value |-> Void]

Returns(value) == [state |-> "returned", value |-> value, error |-> "none"]

Throws(message) == [state |-> "threw", value |-> Void, error |-> message]

NotConnectedMessage == "Not connected to MCP server"

SyntaxErrorMessage == "SyntaxError"

\* recall parses the text outside any try/catch
DecodeRecallUnguarded(m, result) ==
    LET text == TextOf(result)
        parsed == JsonParseText(text)
    IN CASE m \in {"search", "list"} ->
              IF text # NoText /\ parsed.ok THEN Returns(parsed.value)
              ELSE Returns(EmptySequence)
         [] m \in {"recall", "getStats"} ->
              IF text # NoText
              THEN IF parsed.ok THEN Returns(parsed.value) ELSE Throws(SyntaxErrorMessage)
              ELSE Returns(IF m = "recall" THEN Null ELSE DefaultStats)
         [] m = "store" -> Returns([type |-> "string", items |-> <<text>>])
         [] m = "delete" -> Returns(Void)

\* the rest of a typed method once `await this.call(...)` resolved with result
Decode(m, result) ==
    LET text == TextOf(result)
        parsed == JsonParseText(text)
    IN CASE m \in {"search", "list"} ->
              IF text # NoText /\ parsed.ok THEN Returns(parsed.value)
              ELSE Returns(EmptySequence)
         [] m = "recall" ->
              IF text # NoText /\ parsed.ok THEN Returns(parsed.value)
              ELSE Returns(Null)
         [] m = "getStats" ->
              IF text # NoText
              THEN IF parsed.ok THEN Returns(parsed.value) ELSE Throws(SyntaxErrorMessage)
              ELSE Returns(DefaultStats)
         [] m = "store" -> Returns([type |-> "string", items |-> <<text>>])
         [] m = "delete" -> Returns(Void)

\* what the t-th typed method invoked has come to
Returned(t) ==
    IF typed[t].call = 0 THEN Throws(NotConnectedMessage)
    ELSE LET call == calls[typed[t].call]
         IN CASE call.outcome = "pending" ->
                   [state |-> "waiting", value |-> Void, error |-> "none"]
              [] call.outcome = "rejected" -> Throws(call.value)
              [] call.outcome = "resolved" -> Decode(typed[t].method, call.value)

(* ---- the typed-method specification ---- *)
\* what a worker may answer to a typed method in one read
TypedChunks ==
    {RespLine(i, k) : i \in 1..MaxCalls, k \in PayloadKinds \cup {"e", "n"}}

\* the client after connect() succeeded: the handshake (id 1) was answered
InitTyped ==
    /\ process = 1
    /\ connected = TRUE
    /\ requestId = 1
    /\ pendingRequests = EmptyMap
    /\ buffer = <<>>
    /\ procs = <<"alive">>
    /\ written = [p \in 1..MaxProcs |->
                    IF p = 1 THEN <<Request(1, "initialize", InitializeParams)>>
                    ELSE <<>>]
    /\ calls = <<Settle(NewCall(1, "initialize", 1, 1), "resolved", ResultValue, 1)>>
    /\ connects = <<[proc |-> 1, state |-> "resolved"]>>
    /\ input = <<>>
    /\ fed = 0
    /\ decoded = <<>>
    /\ typed = <<>>
    /\ InitDiag
    /\ InitEnvFile
    /\ InitOnboarding

NextTyped ==
    \/ \E q \in Queries : \E l \in Limits : Search(q, l)
    \/ \E c \in Contents : Store(c)
    \/ \E id \in EntryIds : Recall(id)
    \/ \E l \in Limits : List(l)
    \/ GetStats
    \/ \E id \in EntryIds : Delete(id)
    \/ \E chunk \in TypedChunks : StdoutData(1, chunk)
    \/ \E c \in 1..MaxCalls : TimerFire(c)
    \/ Disconnect

SpecTyped == InitTyped /\ [][NextTyped]_vars

(* ---- observations on typed methods ---- *)
\* the t-th typed method got a result from its call
GotResult(t) == typed[t].call # 0 /\ calls[typed[t].call].outcome = "resolved"

\* the t-th typed method's call failed (remote error or timeout)
CallFailed(t) == typed[t].call # 0 /\ calls[typed[t].call].outcome = "rejected"

\* the result has no content, or its text is not valid JSON
Undecodable(result) == TextOf(result) = NoText \/ ~JsonParseText(TextOf(result)).ok

(* ---- C22 ---- *)
\* C22: whatever result search or list gets, it returns a sequence: the
\* decoded one when the text is the JSON of a sequence, the empty one when
\* the content is missing, is not JSON, or is JSON of something else.
SearchListReturnSequence ==
    \A t \in 1..Len(typed) :
        (typed[t].method \in {"search", "list"} /\ GotResult(t)) =>
            /\ Returned(t).state = "returned"
            /\ Returned(t).value.type = "array"
            /\ (TextOf(calls[typed[t].call].value) # TextEntries =>
                   Returned(t).value = EmptySequence)

(* ---- C23 ---- *)
\* C23: search, list and recall never throw: when their call fails they
\* return the empty sequence (search, list) or absent (recall); store,
\* getStats and delete throw the error of their call.
SequenceMethodsNeverThrow ==
    \A t \in 1..Len(typed) :
        CallFailed(t) =>
            CASE typed[t].method \in {"search", "list"} ->
                    Returned(t) = Returns(EmptySequence)
              [] typed[t].method = "recall" -> Returned(t) = Returns(Null)
              [] OTHER ->
                    /\ Returned(t).state = "threw"
                    /\ Returned(t).error = calls[typed[t].call].value

(* ---- C24 ---- *)
\* C24: getStats does not throw on a malformed result: with the content
\* missing or its text not valid JSON it returns the default statistics.
GetStatsDefaultsOnMalformed ==
    \A t \in 1..Len(typed) :
        (/\ typed[t].method = "getStats"
         /\ GotResult(t)
         /\ Undecodable(calls[typed[t].call].value)) =>
            Returned(t) = Returns(DefaultStats)

(* ---- C25 ---- *)
\* C25: recall returns absent, and does not throw, when the result has no
\* content or its text is not valid JSON.
RecallAbsentOnUndecodable ==
    \A t \in 1..Len(typed) :
        (/\ typed[t].method = "recall"
         /\ GotResult(t)
         /\ Undecodable(calls[typed[t].call].value)) =>
            /\ Returned(t).state = "returned"
            /\ Returned(t).value.type = "null"

\* one recall got text that is not JSON, another a result without content
WitnessRecallUndecodable ==
    \E t, u \in 1..Len(typed) :
        /\ typed[t].method = "recall" /\ typed[u].method = "recall"
        /\ GotResult(t) /\ GotResult(u)
        /\ TextOf(calls[typed[t].call].value) = TextGarbage
        /\ calls[typed[u].call].value = "rM"
        /\ Returned(t).value.type = "null"

(* ---- C26 ---- *)
\* the t-th typed method is a search waiting for its response
SearchWaiting(t) ==
    /\ typed[t].method = "search"
    /\ typed[t].call # 0
    /\ IsPending(typed[t].call)

\* what search number t returns if the worker now answers request id with a
\* result whose text is the JSON of a one-element array with id "1"
SearchAfterAnswerTo(t, id) ==
    LET c == typed[t].call
        after == Routed(Utf8Decode(RespLine(id, "rA")))
    IN IF after.calls[c].outcome = "resolved"
       THEN Decode("search", after.calls[c].value)
       ELSE [state |-> "waiting", value |-> Void, error |-> "none"]

OneEntry(r) ==
    /\ r.state = "returned"
    /\ r.value.type = "array"
    /\ Len(r.value.items) = 1
    /\ r.value.items[1].id = "1"

\* C26 as stated: a search on a connected client returns the one-element
\* sequence when the worker replies with the response envelope of id 1.
EndToEndSearchAnsweredWithIdOne ==
    \A t \in 1..Len(typed) :
        (SearchWaiting(t) /\ buffer = <<>>) => OneEntry(SearchAfterAnswerTo(t, 1))

\* C26, amended: a search on a connected client returns the one-element
\* sequence when the worker replies with the response envelope that carries
\* the id of the search request (2 or more: the handshake took id 1).
EndToEndSearchAnsweredWithOwnId ==
    \A t \in 1..Len(typed) :
        (SearchWaiting(t) /\ buffer = <<>>) =>
            /\ calls[typed[t].call].id > 1
            /\ OneEntry(SearchAfterAnswerTo(t, calls[typed[t].call].id))

\* search("foo", 20) was the first request after the handshake and has
\* returned the entry the worker sent
WitnessSearchReturnedEntry ==
    /\ Len(typed) >= 1
    /\ typed[1].method = "search"
    /\ GotResult(1)
    /\ calls[typed[1].call].id = 2
    /\ written[1][2].params = ToolParams("memory_search", [query |-> "foo", limit |-> 20])
    /\ OneEntry(Returned(1))

(* ---- C27 ---- *)
\* the method surface as documented: method name and the fields of params
DocumentedName(m) ==
    CASE m = "search" -> "memory_search"
      [] m = "store" -> "memory_store"
      [] m = "recall" -> "memory_recall"
      [] m = "list" -> "memory_list"
      [] m = "getStats" -> "memory_stats"
      [] m = "delete" -> "memory_delete"

DocumentedParams(m) ==
    CASE m = "search" -> {"query", "limit"}
      [] m = "store" -> {"content", "type", "source", "tags"}
      [] m = "recall" -> {"id"}
      [] m = "list" -> {"limit"}
      [] m = "getStats" -> {}
      [] m = "delete" -> {"id"}

\* where the request lines with the id of call c are, over all workers
LinesOf(c) ==
    {x \in (1..MaxProcs) \X (1..MaxCalls) :
        x[2] <= Len(written[x[1]]) /\ written[x[1]][x[2]].id = calls[c].id}

\* the one request line of call c
LineOf(c) == LET x == CHOOSE y \in LinesOf(c) : TRUE IN written[x[1]][x[2]]

\* C27 as stated: each typed method writes exactly one request envelope with
\* the documented method name in its method field, the documented params
\* shape as its params, and the constant 2.0 tag.
TypedRequestNamesMethod ==
    \A t \in 1..Len(typed) :
        typed[t].call # 0 =>
            /\ Cardinality(LinesOf(typed[t].call)) = 1
            /\ LineOf(typed[t].call).jsonrpc = "2.0"
            /\ LineOf(typed[t].call).method = DocumentedName(typed[t].method)
            /\ DOMAIN LineOf(typed[t].call).params = DocumentedParams(typed[t].method)

\* C27, amended: each typed method writes exactly one request envelope with
\* the constant 2.0 tag, whose method field is tools/call and whose params
\* are {name, arguments}: name is the documented method name and arguments
\* has the documented params shape.
TypedRequestIsToolsCall ==
    \A t \in 1..Len(typed) :
        typed[t].call # 0 =>
            /\ Cardinality(LinesOf(typed[t].call)) = 1
            /\ LineOf(typed[t].call).jsonrpc = "2.0"
            /\ LineOf(typed[t].call).method = "tools/call"
            /\ DOMAIN LineOf(typed[t].call).params = {"name", "arguments"}
            /\ LineOf(typed[t].call).params.name = DocumentedName(typed[t].method)
            /\ DOMAIN LineOf(typed[t].call).params.arguments =
                  DocumentedParams(typed[t].method)

\* store and getStats were invoked one after the other on the same worker
WitnessStoreThenGetStats ==
    /\ Len(typed) = 2
    /\ typed[1].method = "store"
    /\ typed[2].method = "getStats"
    /\ Len(written[1]) = 3
    /\ written[1][3].params.name = "memory_stats"

(* ---- C28 ---- *)
\* the ids of the requests written to worker p
IdsWrittenTo(p) == {written[p][i].id : i \in 1..Len(written[p])}

\* a read in which the current worker answers only requests it was sent
AnswersOwnRequests(chunk) ==
    EnvelopeIds(ReadLines(chunk)) \subseteq IdsWrittenTo(process)

DisconnectNoOpWhenDisconnected ==
    [][Disconnect =>
          /\ process' = 0
          /\ process = 0 =>
                UNCHANGED <<process, connected, requestId, pendingRequests,
                            buffer, procs, written, calls, connects>>]_vars

\* the client was disconnected with a request still pending and a partial
\* line in the read buffer
WitnessDisconnectedWithLeftovers ==
    /\ process = 0
    /\ procs = <<"killed">>
    /\ requestId = 2
    /\ DOMAIN pendingRequests # {}
    /\ buffer # <<>>

(* ---- C30 ---- *)
NotBlank(line) == ~IsBlank(line)

\* C30: empty and whitespace-only lines are discarded: a read holding such
\* lines leaves the pending set and every caller exactly as the same read
\* without them would, and a read of nothing but such lines changes nothing.
BlankLinesDiscarded ==
    \A chunk \in Chunks :
        LET lines == ReadLines(chunk)
            after == Routed(Utf8Decode(chunk))
            rest == RouteLines(SelectSeq(lines, NotBlank),
                               [pend |-> pendingRequests, calls |-> calls])
        IN (\E i \in 1..Len(lines) : IsBlank(lines[i])) =>
              /\ after = rest
              /\ ((\A i \in 1..Len(lines) : IsBlank(lines[i])) =>
                     after.pend = pendingRequests /\ after.calls = calls)

\* a typed call is pending and one read can deliver an empty line, a
\* whitespace-only line and then the response to that call
WitnessBlankLinesThenResponse ==
    /\ CanRead(process)
    /\ buffer = <<>>
    /\ \E chunk \in Chunks : \E c \in 1..Len(calls) :
          /\ IsPending(c)
          /\ calls[c].method = "tools/call"
          /\ Len(ReadLines(chunk)) = 3
          /\ ReadLines(chunk)[1] = <<>>
          /\ ReadLines(chunk)[2] = <<SP>>
          /\ Hits(ReadLines(chunk), c) = {3}

(* ---- the workers' standard error ---- *)
MaxStderr == 1     \* diagnostics printed over the life of the client

\* what a worker may print on its standard error: text that reads like a
\* response to a request, or like the beginning of one
StderrChunks == {RespLine(1, "r"), RespLine(2, "e"), <<IdChars[1]>>}

\* what the workers print on their standard output in this specification
StderrSpecChunks == RespLines \cup {<<IdChars[i]>> : i \in 1..MaxSplit}

\* the stderr handler hands the text to handleData as the stdout handler does
StderrDataParsed(p, chunk) ==
    /\ CanRead(p)
    /\ Len(stderrLog) < MaxStderr
    /\ stderrLog' = Append(stderrLog, Utf8Decode(chunk))
    /\ HandleData(Utf8Decode(chunk))
    /\ Len(buffer') <= MaxBuf
    /\ UNCHANGED <<process, requestId, procs, written>>
    /\ UNCHANGED <<framingVars, typedVars, envVars, onboardingVars>>

\* stderr 'data' of worker p: console.error('MCP stderr:', data.toString())
StderrData(p, chunk) ==
    /\ CanRead(p)
    /\ Len(stderrLog) < MaxStderr
    /\ stderrLog' = Append(stderrLog, Utf8Decode(chunk))
    /\ UNCHANGED <<clientVars, framingVars, typedVars, envVars, onboardingVars>>

NextStderr ==
    \/ Connect(TRUE)
    \/ ToolCall
    \/ \E c \in 1..MaxCalls : TimerFire(c)
    \/ \E p \in 1..MaxProcs : \E chunk \in StderrSpecChunks : StdoutData(p, chunk)
    \/ \E p \in 1..MaxProcs : \E chunk \in StderrChunks : StderrData(p, chunk)
    \/ Disconnect

SpecStderr == Init /\ [][NextStderr]_vars

(* ---- C31 ---- *)
\* C31: a step that prints a diagnostic for data on a worker's standard error
\* changes nothing else: the read buffer, the pending map, the id counter,
\* the connected flag, the held process, every caller's outcome and every
\* connect promise are as before.
StderrNeverParsed ==
    [][stderrLog' # stderrLog =>
          UNCHANGED <<buffer, pendingRequests, requestId, connected, process,
                      procs, written, calls, connects>>]_vars

\* a diagnostic that reads like the answer to the handshake was printed,
\* a fragment of a line is in the read buffer, and the handshake is
\* still waiting under its id
WitnessStderrLooksLikeResponse ==
    /\ stderrLog = <<Utf8Decode(RespLine(1, "r"))>>
    /\ buffer # <<>>
    /\ Len(calls) >= 1
    /\ IsPending(1)
    /\ calls[1].outcome = "pending"

(* ---- C34 ---- *)
\* C34: whenever isConnected() is true the client holds a process handle,
\* and the process it holds is one whose own handshake was answered
\* successfully.
ConnectedHoldsHandshakenProcess ==
    connected => (process # 0 /\ HandshakeDone(process))

(* ---- C35 ---- *)
\* the workers this client spawned that are running
Running == {p \in 1..Len(procs) : procs[p] = "alive"}

\* C35: at most one worker spawned by this client is running at any time,
\* and while the client holds no process (before connect(), after
\* disconnect()) none is running.
AtMostOneLiveWorker ==
    /\ Cardinality(Running) <= 1
    /\ process = 0 => Running = {}

(* ---- C36 ---- *)
\* C36: a 'close' or 'error' event of a worker other than the one the client
\* holds leaves the connected flag as it was.
StaleExitKeepsConnectionState ==
    [][\A p \in 1..MaxProcs :
          (p # process /\ (ProcClose(p) \/ ProcError(p))) =>
              connected' = connected]_vars

(* ---- C37 ---- *)
\* C37: a step that spawns a worker leaves the read buffer empty, and a read
\* from a worker other than the one the client holds changes neither the
\* buffer nor any caller.
BufferBelongsToCurrentWorker ==
    [][/\ Len(procs') > Len(procs) => buffer' = <<>>
       /\ \A p \in 1..MaxProcs :
             (p # process /\ \E chunk \in Chunks : StdoutData(p, chunk)) =>
                 UNCHANGED <<buffer, calls, pendingRequests>>]_vars

(* ---- C38 ---- *)
\* C38: a typed method whose call() throws 'Not connected to MCP server'
\* leaves the client as it was: the id counter, the pending map, the timers
\* and outcomes of all callers, the lines written to every worker, the
\* buffer and the connection state are unchanged.
NotConnectedCallChangesNothing ==
    [][(/\ Len(typed') = Len(typed) + 1
        /\ typed'[Len(typed')].call = 0) =>
          UNCHANGED clientVars]_vars

\* a method threw 'Not connected to MCP server' after disconnect(), while
\* an earlier request is still in the pending map
WitnessNotConnectedAfterDisconnect ==
    /\ process = 0
    /\ Len(typed) = 2
    /\ typed[1].call # 0
    /\ IsPending(typed[1].call)
    /\ typed[2].call = 0
    /\ Returned(2) = Throws(NotConnectedMessage)

(* ---- OnboardingPanel._updateEnvFile (onboardingPanel.ts) ---- *)
(* The content of the .env file is a sequence of characters; the name of a *)
(* variable is one character of it, as no text the wizard writes can split *)
(* a name.                                                                 *)
MaxSaves == 3      \* _updateEnvFile calls that wrote the file

EQ == "="
DOLLAR == "$"
AMP == "&"

\* the keys the wizard saves, and a variable it does not know
EnvKeys == {"ANTHROPIC_API_KEY", "OPENAI_API_KEY"}

ExistingVar == "EXISTING_VAR"

\* the values typed into the wizard: not empty, on one line
EnvValues == {<<"x">>, <<"y">>, <<DOLLAR, AMP>>, <<DOLLAR, DOLLAR>>}

\* the .env file before the wizard touches it: absent, or written by hand
EnvFilesAtStart ==
    {[exists |-> FALSE, content |-> <<>>],
     [exists |-> TRUE, content |-> <<ExistingVar, EQ, "x", NL>>],
     [exists |-> TRUE, content |-> <<ExistingVar, EQ, "x">>],
     [exists |-> TRUE, content |-> <<"ANTHROPIC_API_KEY", EQ, "y", NL>>]}

\* the positions at which new RegExp(`^${key}=.*$`, 'm') matches: the
\* beginning of a line that starts with key=
KeyMatches(content, key) ==
    {i \in 1..(Len(content) - 1) :
        /\ i = 1 \/ content[i - 1] = NL
        /\ content[i] = key
        /\ content[i + 1] = EQ}

\* keyRegex.test(content)
KeyRegexTest(content, key) == KeyMatches(content, key) # {}

\* the last position of the match that begins at i: `.*$` runs to the end
\* of the line
MatchEnd(content, i) ==
    CHOOSE j \in i..Len(content) :
        /\ \A k \in i..j : content[k] # NL
        /\ j = Len(content) \/ content[j + 1] = NL

\* the replacement patterns of String.prototype.replace: $$ inserts a
\* dollar sign, $& the matched text; any other character stands for itself
RECURSIVE Expand(_, _)
Expand(replacement, matched) ==
    IF replacement = <<>> THEN <<>>
    ELSE IF Len(replacement) >= 2 /\ replacement[1] = DOLLAR /\ replacement[2] = DOLLAR
    THEN <<DOLLAR>> \o Expand(SubSeq(replacement, 3, Len(replacement)), matched)
    ELSE IF Len(replacement) >= 2 /\ replacement[1] = DOLLAR /\ replacement[2] = AMP
    THEN matched \o Expand(SubSeq(replacement, 3, Len(replacement)), matched)
    ELSE <<replacement[1]>> \o Expand(Tail(replacement), matched)

\* content.replace(keyRegex, replacement): the first match is replaced
ReplaceKey(content, key, replacement) ==
    IF ~KeyRegexTest(content, key) THEN content
    ELSE LET i == Min(KeyMatches(content, key))
             j == MatchEnd(content, i)
         IN SubSeq(content, 1, i - 1)
            \o Expand(replacement, SubSeq(content, i, j))
            \o SubSeq(content, j + 1, Len(content))

\* `${key}=${value}`
EnvLine(key, value) == <<key, EQ>> \o value

\* the content _updateEnvFile writes
UpdatedContent(content, key, value) ==
    IF KeyRegexTest(content, key)
    THEN ReplaceKey(content, key, EnvLine(key, value))
    ELSE content \o <<NL>> \o EnvLine(key, value) \o <<NL>>

\* _updateEnvFile(key, value); ok: readFileSync and writeFileSync succeed
UpdateEnvFile(key, value, ok) ==
    /\ Len(saves) < MaxSaves
    /\ IF ok
       THEN /\ envFile' = [exists |-> TRUE,
                           content |-> UpdatedContent(
                               IF envFile.exists THEN envFile.content ELSE <<>>,
                               key, value)]
            /\ saves' = Append(saves, <<key, value>>)
       ELSE UNCHANGED envVars
    /\ UNCHANGED <<clientVars, framingVars, typedVars, diagVars, onboardingVars>>

InitEnv ==
    /\ process = 0
    /\ connected = FALSE
    /\ requestId = 0
    /\ pendingRequests = EmptyMap
    /\ buffer = <<>>
    /\ procs = <<>>
    /\ written = [p \in 1..MaxProcs |-> <<>>]
    /\ calls = <<>>
    /\ connects = <<>>
    /\ input = <<>>
    /\ fed = 0
    /\ decoded = <<>>
    /\ typed = <<>>
    /\ InitDiag
    /\ envFile \in EnvFilesAtStart
    /\ saves = <<>>
    /\ InitOnboarding

NextEnv ==
    \E key \in EnvKeys : \E value \in EnvValues : \E ok \in BOOLEAN :
        UpdateEnvFile(key, value, ok)

SpecEnv == InitEnv /\ [][NextEnv]_vars

(* ---- observations on the .env file ---- *)
\* the lines of the file that begin with key=
LinesOfKey(content, key) ==
    SelectSeq(SplitNL(content),
              LAMBDA line : Len(line) >= 2 /\ line[1] = key /\ line[2] = EQ)

\* the keys saved so far
SavedKeys == {saves[i][1] : i \in 1..Len(saves)}

\* the value saved last for a key
LastSaved(key) ==
    saves[CHOOSE i \in 1..Len(saves) :
              /\ saves[i][1] = key
              /\ \A j \in (i + 1)..Len(saves) : saves[j][1] # key][2]

(* ---- C32 ---- *)
\* C32: after any sequence of saves the file holds, for every key saved,
\* exactly one line key=value, with the value saved last for that key, and
\* a save leaves the lines of every other variable as they were.
EnvFileHoldsLatestValues ==
    /\ [](\A key \in SavedKeys :
             LinesOfKey(envFile.content, key) = <<EnvLine(key, LastSaved(key))>>)
    /\ [][envFile' # envFile =>
             \A other \in (EnvKeys \cup {ExistingVar}) \ {saves'[Len(saves')][1]} :
                 LinesOfKey(envFile'.content, other)
                     = LinesOfKey(envFile.content, other)]_vars

(* ---- the onboarding extension (extension.ts, onboardingPanel.ts) ---- *)
(* A stored or configured value is <<>> when absent and <<v>> when v is    *)
(* present.  A panel is named by its index in panels.  A handler that      *)
(* awaits is two steps: up to the await, and its continuation.             *)
MaxPanels == 3     \* webview panels created over the life of the program

\* process.env.CAIIDE_ONBOARDING: unset, 'true', or something else
EnvSettings == {<<>>, <<"true">>, <<"1">>}

\* the showOnStartup setting: not configured, true or false
ConfigSettings == {<<>>, <<TRUE>>, <<FALSE>>}

\* memento.get(key, defaultValue) and config.get(key, defaultValue)
Get(stored, defaultValue) == IF stored = <<>> THEN defaultValue ELSE stored[1]

\* the wizard is shown when onboarding is complete, whatever else holds
ShouldShowUnlessComplete(onboardingComplete, showOnStartup, forceOnboarding) ==
    ~onboardingComplete /\ (showOnStartup \/ forceOnboarding)

\* (!onboardingComplete && showOnStartup) || forceOnboarding
ShouldShow(onboardingComplete, showOnStartup, forceOnboarding) ==
    (~onboardingComplete /\ showOnStartup) \/ forceOnboarding

\* OnboardingPanel.createOrShow(context)
CreateOrShow ==
    IF currentPanel # 0
    THEN UNCHANGED <<currentPanel, panels>>
    ELSE /\ Len(panels) < MaxPanels
         /\ panels' = Append(panels, "open")
         /\ currentPanel' = Len(panels) + 1

\* the instance's dispose() is called whether or not the panel is disposed
PanelDisposeUnchecked(p) ==
    /\ panels' = [panels EXCEPT ![p] = "disposed"]
    /\ currentPanel' = 0

\* panel p's _panel.dispose(): a panel not yet disposed fires onDidDispose,
\* whose listener is the instance's dispose()
PanelDispose(p) ==
    IF panels[p] = "open"
    THEN /\ panels' = [panels EXCEPT ![p] = "disposed"]
         /\ currentPanel' = 0
    ELSE UNCHANGED <<currentPanel, panels>>

\* activate(context) in a new extension host
Activate(env, cfg) ==
    /\ ~activated
    /\ activated' = TRUE
    /\ environment' = env
    /\ configuration' = cfg
    /\ showTimer' = ShouldShow(Get(globalState, FALSE), Get(cfg, TRUE), env = <<"true">>)
    /\ currentPanel' = 0
    /\ panels' = [p \in 1..Len(panels) |-> "disposed"]
    /\ awaiting' = {}
    /\ event' = "activate"
    /\ UNCHANGED globalState
    /\ UNCHANGED <<clientVars, framingVars, typedVars, diagVars, envVars>>

\* the callback of setTimeout(..., 1000) in activate
ShowTimeout ==
    /\ showTimer
    /\ showTimer' = FALSE
    /\ CreateOrShow
    /\ event' = "timeout"
    /\ UNCHANGED <<globalState, activated, environment, configuration, awaiting>>
    /\ UNCHANGED <<clientVars, framingVars, typedVars, diagVars, envVars>>

\* the command caiide-onboarding.showWizard
ShowWizard ==
    /\ activated
    /\ CreateOrShow
    /\ event' = "showWizard"
    /\ UNCHANGED <<globalState, activated, showTimer, environment, configuration,
                   awaiting>>
    /\ UNCHANGED <<clientVars, framingVars, typedVars, diagVars, envVars>>

\* the command caiide-onboarding.resetOnboarding
ResetOnboarding ==
    /\ activated
    /\ globalState' = <<FALSE>>
    /\ event' = "resetOnboarding"
    /\ UNCHANGED <<currentPanel, panels, activated, showTimer, environment,
                   configuration, awaiting>>
    /\ UNCHANGED <<clientVars, framingVars, typedVars, diagVars, envVars>>

\* a message of panel p's webview handled up to `await globalState.update`
UpdateComplete(p, command) ==
    /\ p \in 1..Len(panels)
    /\ panels[p] = "open"
    /\ globalState' = <<TRUE>>
    /\ awaiting' = awaiting \cup {p}
    /\ event' = command
    /\ UNCHANGED <<currentPanel, panels, activated, showTimer, environment,
                   configuration>>
    /\ UNCHANGED <<clientVars, framingVars, typedVars, diagVars, envVars>>

\* _completeOnboarding() up to its await
CompleteOnboarding(p) == UpdateComplete(p, "completeOnboarding")

\* _skipOnboarding() up to its await
SkipOnboarding(p) == UpdateComplete(p, "skipOnboarding")

\* the continuation of _completeOnboarding / _skipOnboarding:
\* this._panel.dispose()
DisposeAfterUpdate(p) ==
    /\ p \in awaiting
    /\ awaiting' = awaiting \ {p}
    /\ PanelDispose(p)
    /\ event' = "disposePanel"
    /\ UNCHANGED <<globalState, activated, showTimer, environment, configuration>>
    /\ UNCHANGED <<clientVars, framingVars, typedVars, diagVars, envVars>>

\* the user closes panel p: onDidDispose
UserClose(p) ==
    /\ p \in 1..Len(panels)
    /\ panels[p] = "open"
    /\ PanelDispose(p)
    /\ event' = "close"
    /\ UNCHANGED <<globalState, activated, showTimer, environment, configuration,
                   awaiting>>
    /\ UNCHANGED <<clientVars, framingVars, typedVars, diagVars, envVars>>

\* deactivate(): OnboardingPanel.dispose()
Deactivate ==
    /\ activated
    /\ activated' = FALSE
    /\ IF currentPanel # 0
       THEN PanelDispose(currentPanel)
       ELSE UNCHANGED <<currentPanel, panels>>
    /\ event' = "deactivate"
    /\ UNCHANGED <<globalState, showTimer, environment, configuration, awaiting>>
    /\ UNCHANGED <<clientVars, framingVars, typedVars, diagVars, envVars>>

NextOnboarding ==
    \/ \E env \in EnvSettings : \E cfg \in ConfigSettings : Activate(env, cfg)
    \/ ShowTimeout
    \/ ShowWizard
    \/ ResetOnboarding
    \/ \E p \in 1..MaxPanels : CompleteOnboarding(p)
    \/ \E p \in 1..MaxPanels : SkipOnboarding(p)
    \/ \E p \in 1..MaxPanels : DisposeAfterUpdate(p)
    \/ \E p \in 1..MaxPanels : UserClose(p)
    \/ Deactivate

SpecOnboarding == Init /\ [][NextOnboarding]_vars

(* ---- observations on the onboarding extension ---- *)
\* globalState.get(ONBOARDING_COMPLETE_KEY, false)
OnboardingComplete == Get(globalState, FALSE)

\* the panels that exist
OpenPanels == {p \in 1..Len(panels) : panels[p] = "open"}

(* ---- C33 ---- *)
\* C33: onboarding completion reads false initially; it reads true after
\* completeOnboarding and after skipOnboarding, and false after
\* resetOnboarding, and nothing else changes it; activate() arms the timer
\* that shows the wizard if and only if completion is false and
\* showOnStartup is true, or CAIIDE_ONBOARDING is 'true'; and when the timer
\* fires a panel is shown.
CompletionTrackedAndWizardShown ==
    /\ ~OnboardingComplete
    /\ [][/\ event' \in {"completeOnboarding", "skipOnboarding"} => OnboardingComplete'
          /\ event' = "resetOnboarding" => ~OnboardingComplete'
          /\ OnboardingComplete' # OnboardingComplete =>
                event' \in {"completeOnboarding", "skipOnboarding", "resetOnboarding"}
          /\ (event' = "activate" /\ ~activated) =>
                (showTimer' <=>
                    \/ ~OnboardingComplete /\ Get(configuration', TRUE)
                    \/ environment' = <<"true">>)
          /\ (event' = "timeout" /\ showTimer) => currentPanel' \in OpenPanels'
         ]_vars

\* the extension was activated with onboarding complete and CAIIDE_ONBOARDING
\* set to 'true', and the timer that shows the wizard is armed
WitnessForcedAfterCompletion ==
    /\ event = "activate"
    /\ OnboardingComplete
    /\ environment = <<"true">>
    /\ Get(configuration, TRUE) = FALSE
    /\ showTimer

(* ---- C39 ---- *)
\* C39: at most one panel exists, and it is currentPanel; createOrShow with
\* a panel present creates nothing and keeps currentPanel; when a panel is
\* disposed currentPanel becomes undefined; and createOrShow without a
\* panel creates one, which becomes currentPanel.
AtMostOnePanel ==
    /\ [](/\ Cardinality(OpenPanels) <= 1
          /\ OpenPanels = IF currentPanel = 0 THEN {} ELSE {currentPanel})
    /\ [][/\ (event' \in {"showWizard", "timeout"} /\ currentPanel # 0) =>
                UNCHANGED <<currentPanel, panels>>
          /\ (event' \in {"showWizard", "timeout"} /\ currentPanel = 0
                /\ panels' # panels) =>
                /\ Len(panels') = Len(panels) + 1
                /\ currentPanel' = Len(panels')
                /\ OpenPanels' = {currentPanel'}
          /\ (OpenPanels' # OpenPanels /\ OpenPanels' = {}) => currentPanel' = 0
         ]_vars

\* the continuation of a complete/skip handler ran on a panel the user had
\* closed meanwhile, after a new panel was created
WitnessLateDisposeOfClosedPanel ==
    /\ Len(panels) = 2
    /\ panels[1] = "disposed"
    /\ panels[2] = "open"
    /\ currentPanel = 2
    /\ awaiting = {}
    /\ event = "disposePanel"

====
